---- MODULE Spec2Model ----
(***************************************************************************)
(* State-machine model of src/server.py (LatentGraph API): the agents,     *)
(* posts and comments tables, the upload directory, and the request        *)
(* handlers register_agent, create_post, create_comment and get_feed,      *)
(* each split at the points where it touches the shared database.          *)
(***************************************************************************)
EXTENDS Integers, Sequences, FiniteSets, TLC

VARIABLES
    agents,     \* table "agents": sequence of rows, agents[i].id = i
    posts,      \* table "posts": sequence of rows, posts[i].id = i
    comments,   \* table "comments": sequence of rows, comments[i].id = i
    files,      \* names of the files present under UPLOAD_DIR
    clock,      \* datetime.utcnow()
    pc,         \* pc[p]: where request worker p stands
    loc,        \* loc[p]: the local variables of the handler p is running
    resp,       \* resp[p]: the HTTP response of p's latest request
    lastFeed    \* history: the latest completed get_feed response

vars == <<agents, posts, comments, files, clock, pc, loc, resp, lastFeed>>
tables == <<agents, posts, comments>>

-----------------------------------------------------------------------------
(* Bounds of the model.                                                    *)

NProcs == 2
MaxPosts == 1
MaxComments == 1
MaxClock == 1
MaxExtraPosts == 2
MaxExtraComments == 2

(* Program constants.                                                      *)

PostLimit == 50
CommentLimit == 5

(* Inputs.                                                                 *)

Procs == 1..NProcs
Names == {"alice", "bob"}
Models == {"modelX"}
Keys == {"k1", "k2"}
NoHeader == "<no header>"
Credentials == Keys \cup {"bad", NoHeader}
Captions == {"hi"}
NoFile == "<no file>"
Uploads == {"a.png", NoFile}
Tokens == {"t1"}
Texts == {"nice", "ok"}
PostIds == 1..(MaxPosts + 1)

-----------------------------------------------------------------------------
(* Helpers.                                                                *)

Range(s) == {s[i] : i \in DOMAIN s}

Min(a, b) == IF a <= b THEN a ELSE b

NoRow == [id |-> 0]

\* Query.first(): the first row of the result, or None.
first(S) == IF S = {} THEN NoRow ELSE CHOOSE r \in S : \A o \in S : r.id <= o.id

\* The rows of minimal timestamp: ORDER BY timestamp ASC.
Oldest(S) == {r \in S : \A o \in S : o.timestamp >= r.timestamp}

\* The rows of maximal timestamp: the candidates for the next row of an
\* ORDER BY timestamp DESC result.
Newest(S) == {r \in S : \A o \in S : o.timestamp <= r.timestamp}

\* Query.order_by(timestamp.desc()).limit(k).all(): every result the
\* statement allows. Rows of equal timestamp come in any order: the
\* statement names no second sort key.
RECURSIVE order_by_desc_limit(_, _)
order_by_desc_limit(S, k) ==
    IF S = {} \/ k = 0 THEN {<<>>}
    ELSE UNION { { <<r>> \o t : t \in order_by_desc_limit(S \ {r}, k - 1) } : r \in Newest(S) }

\* Responses. code 0: no response yet.
NoResp == [code |-> 0, status |-> "", agent_name |-> "", api_key |-> "",
           message |-> "", post_id |-> 0, feed |-> <<>>]
Response(code, status) == [NoResp EXCEPT !.code = code, !.status = status]

NoLoc == [name |-> "", model_version |-> "", agent_id |-> 0, caption |-> "",
          filename |-> <<>>, posts |-> <<>>, comments |-> <<>>, feed |-> <<>>,
          w0 |-> 0]

\* Number of rows committed so far (rows are never deleted).
Writes == Len(agents) + Len(posts) + Len(comments)

NoFeed == [valid |-> FALSE, feed |-> <<>>, w0 |-> 0]

-----------------------------------------------------------------------------
(* The handlers.                                                           *)

\* get_current_agent with the filter on api_key lost.
get_current_agent_any(x_agent_key) == first(Range(agents))

\* get_current_agent: the Agent whose api_key equals the header, or None
\* (the handler raises HTTPException 401).
get_current_agent(x_agent_key) ==
    first({a \in Range(agents) : a.api_key = x_agent_key})

\* The end of a request (return or raise): the response is sent, the
\* handler's locals are gone, the worker is free again.
Reply(p, r) ==
    /\ resp' = [resp EXCEPT ![p] = r]
    /\ pc' = [pc EXCEPT ![p] = "idle"]
    /\ loc' = [loc EXCEPT ![p] = NoLoc]

\* The name lookup finding nothing.
name_taken_never(name) == FALSE

\* db.query(Agent).filter(Agent.name == name).first(), as a truth value.
name_taken(name) == first({a \in Range(agents) : a.name = name}) # NoRow

\* register_agent, first half: the name lookup.
register_agent_check(p, name, model_version) ==
    /\ pc[p] = "idle"
    /\ IF name_taken(name)
       THEN Reply(p, [Response(200, "error") EXCEPT
                        !.message = "Name already taken. Choose another."])
       ELSE /\ pc' = [pc EXCEPT ![p] = "register_commit"]
            /\ loc' = [loc EXCEPT ![p] = [NoLoc EXCEPT !.name = name,
                                            !.model_version = model_version]]
            /\ resp' = [resp EXCEPT ![p] = NoResp]
    /\ UNCHANGED <<agents, posts, comments, files, clock>>

\* The INSERT with no UNIQUE constraint on api_key.
AgentInsertAllowed_NameOnly(name, api_key) ==
    \A a \in Range(agents) : a.name # name

\* The INSERT with no UNIQUE constraint on name.
AgentInsertAllowed_KeyOnly(name, api_key) ==
    \A a \in Range(agents) : a.api_key # api_key

\* The INSERT of db.commit() on table agents: name and api_key are UNIQUE.
AgentInsertAllowed(name, api_key) ==
    \A a \in Range(agents) : a.name # name /\ a.api_key # api_key

\* The insert as INSERT OR REPLACE: the rows in the way are deleted.
register_agent_commit_replace(p, api_key) ==
    /\ pc[p] = "register_commit"
    /\ agents' = Append(SelectSeq(agents, LAMBDA a : a.name # loc[p].name /\ a.api_key # api_key),
                        [id |-> Len(agents) + 1,
                         name |-> loc[p].name,
                         model_version |-> loc[p].model_version,
                         api_key |-> api_key])
    /\ Reply(p, [Response(200, "created") EXCEPT
                   !.agent_name = loc[p].name, !.api_key = api_key])
    /\ UNCHANGED <<posts, comments, files, clock>>

\* register_agent, second half: api_key = secrets.token_hex(16), db.add,
\* db.commit. A violated UNIQUE constraint raises IntegrityError, which the
\* handler does not catch: the framework answers 500.
register_agent_commit(p, api_key) ==
    /\ pc[p] = "register_commit"
    /\ IF AgentInsertAllowed(loc[p].name, api_key)
       THEN /\ agents' = Append(agents, [id |-> Len(agents) + 1,
                                         name |-> loc[p].name,
                                         model_version |-> loc[p].model_version,
                                         api_key |-> api_key])
            /\ Reply(p, [Response(200, "created") EXCEPT
                           !.agent_name = loc[p].name, !.api_key = api_key])
       ELSE /\ agents' = agents
            /\ Reply(p, Response(500, "Internal Server Error"))
    /\ UNCHANGED <<posts, comments, files, clock>>

\* The guard with the get_current_agent dependency left out.
Guard_open(x_agent_key, fields_present) ==
    IF ~fields_present THEN 422 ELSE 0

\* The outcome of the framework's parameter handling and of the
\* get_current_agent dependency, for a guarded endpoint: 422 when the
\* required header is absent (the dependency is not called), 401 when the
\* dependency raises, 422 when a required form field is absent, else 0.
Guard(x_agent_key, fields_present) ==
    IF x_agent_key = NoHeader THEN 422
    ELSE IF get_current_agent(x_agent_key) = NoRow THEN 401
    ELSE IF ~fields_present THEN 422
    ELSE 0

GuardReply(code) ==
    IF code = 401 THEN [Response(401, "Unauthorized") EXCEPT !.message = "Invalid API Key"]
    ELSE Response(422, "Unprocessable Entity")

\* create_post, first half: the guard, then the upload is written under
\* UPLOAD_DIR as <token_hex(8)>_<file.filename>.
create_post_save(p, x_agent_key, caption, file, token) ==
    /\ pc[p] = "idle"
    /\ LET code == Guard(x_agent_key, file # NoFile) IN
       IF code # 0
       THEN /\ Reply(p, GuardReply(code))
            /\ files' = files
       ELSE /\ files' = files \cup {<<token, file>>}
            /\ pc' = [pc EXCEPT ![p] = "post_commit"]
            /\ loc' = [loc EXCEPT ![p] = [NoLoc EXCEPT
                         !.agent_id = get_current_agent(x_agent_key).id,
                         !.caption = caption,
                         !.filename = <<token, file>>]]
            /\ resp' = [resp EXCEPT ![p] = NoResp]
    /\ UNCHANGED <<agents, posts, comments, clock>>

\* create_post, second half: db.add(new_post), db.commit(); the timestamp
\* column defaults to utcnow at the INSERT.
create_post_commit(p) ==
    /\ pc[p] = "post_commit"
    /\ posts' = Append(posts, [id |-> Len(posts) + 1,
                               image_filename |-> loc[p].filename,
                               caption |-> loc[p].caption,
                               timestamp |-> clock,
                               agent_id |-> loc[p].agent_id])
    /\ Reply(p, [Response(200, "posted") EXCEPT !.post_id = Len(posts) + 1])
    /\ UNCHANGED <<agents, comments, files, clock>>

\* create_post when db.commit() raises (the database is locked by another
\* writer, the disk is full) or the request is cancelled after the write:
\* the handler has no try/except/finally around the commit, so the file
\* written to UPLOAD_DIR stays, no Post row is stored, and the framework
\* answers 500.
create_post_fail(p) ==
    /\ pc[p] = "post_commit"
    /\ Reply(p, Response(500, "Internal Server Error"))
    /\ UNCHANGED <<agents, posts, comments, files, clock>>

\* create_comment: the guard, then db.add(new_comment), db.commit(). The
\* handler does not look the post up, and the engine is created without
\* PRAGMA foreign_keys, so the INSERT does not check post_id either.
create_comment(p, x_agent_key, post_id, text) ==
    /\ pc[p] = "idle"
    /\ LET code == Guard(x_agent_key, TRUE) IN
       IF code # 0
       THEN /\ Reply(p, GuardReply(code))
            /\ comments' = comments
       ELSE /\ comments' = Append(comments, [id |-> Len(comments) + 1,
                                             text |-> text,
                                             timestamp |-> clock,
                                             agent_id |-> get_current_agent(x_agent_key).id,
                                             post_id |-> post_id])
            /\ Reply(p, Response(200, "commented"))
    /\ UNCHANGED <<agents, posts, files, clock>>

\* get_feed, the posts query.
get_feed_posts(p) ==
    /\ pc[p] = "idle"
    /\ \E ps \in order_by_desc_limit(Range(posts), PostLimit) :
           loc' = [loc EXCEPT ![p] = [NoLoc EXCEPT !.posts = ps, !.w0 = Writes]]
    /\ pc' = [pc EXCEPT ![p] = "feed_loop"]
    /\ resp' = [resp EXCEPT ![p] = NoResp]
    /\ UNCHANGED <<agents, posts, comments, files, clock>>

\* p.owner / c.author: the Agent row the foreign key names.
owner(agent_id) == first({a \in Range(agents) : a.id = agent_id})

\* An entry of the feed that shows the owner's row, api_key included.
FeedItem_leaky(post, cs) ==
    [id |-> post.id,
     image |-> <<"/uploads/", post.image_filename>>,
     caption |-> post.caption,
     agent |-> owner(post.agent_id).name,
     model |-> owner(post.agent_id).api_key,
     time |-> post.timestamp,
     comments |-> [i \in 1..Len(cs) |->
                     [author |-> owner(cs[i].agent_id).name, text |-> cs[i].text]]]

\* An entry of the feed with the comments left out.
FeedItem_bare(post, cs) ==
    [id |-> post.id,
     image |-> <<"/uploads/", post.image_filename>>,
     caption |-> post.caption,
     agent |-> owner(post.agent_id).name,
     model |-> owner(post.agent_id).model_version,
     time |-> post.timestamp,
     comments |-> <<>>]

\* One entry of the feed.
FeedItem(post, cs) ==
    [id |-> post.id,
     image |-> <<"/uploads/", post.image_filename>>,
     caption |-> post.caption,
     agent |-> owner(post.agent_id).name,
     model |-> owner(post.agent_id).model_version,
     time |-> post.timestamp,
     comments |-> [i \in 1..Len(cs) |->
                     [author |-> owner(cs[i].agent_id).name, text |-> cs[i].text]]]

\* The comments query with the filter on post_id lost.
comments_of_any(post) == Range(comments)

\* db.query(Comment).filter(Comment.post_id == p.id): the rows selected.
comments_of(post) == {c \in Range(comments) : c.post_id = post.id}

\* get_feed, one turn of the loop: the comments query of the next post,
\* and the item appended to the feed.
get_feed_loop(p) ==
    /\ pc[p] = "feed_loop"
    /\ Len(loc[p].feed) < Len(loc[p].posts)
    /\ LET post == loc[p].posts[Len(loc[p].feed) + 1] IN
       \E cs \in order_by_desc_limit(comments_of(post), CommentLimit) :
           loc' = [loc EXCEPT ![p].comments = cs,
                              ![p].feed = Append(@, FeedItem(post, cs))]
    /\ UNCHANGED <<agents, posts, comments, files, clock, pc, resp>>

\* The return after a clean-up of the comments whose post is missing.
get_feed_return_cleanup(p) ==
    /\ pc[p] = "feed_loop"
    /\ Len(loc[p].feed) = Len(loc[p].posts)
    /\ Reply(p, [Response(200, "feed") EXCEPT !.feed = loc[p].feed])
    /\ comments' = SelectSeq(comments, LAMBDA c : \E q \in Range(posts) : q.id = c.post_id)
    /\ UNCHANGED <<agents, posts, files, clock>>

\* get_feed, the return.
get_feed_return(p) ==
    /\ pc[p] = "feed_loop"
    /\ Len(loc[p].feed) = Len(loc[p].posts)
    /\ Reply(p, [Response(200, "feed") EXCEPT !.feed = loc[p].feed])
    /\ UNCHANGED <<agents, posts, comments, files, clock>>

\* Time passes.
Tick ==
    /\ clock' = clock + 1
    /\ UNCHANGED <<agents, posts, comments, files, pc, loc, resp>>

-----------------------------------------------------------------------------
(* The history of feed responses: the latest one, kept until a row is      *)
(* committed.                                                              *)

RecordFeed(p) == lastFeed' = [valid |-> TRUE, feed |-> loc[p].feed, w0 |-> loc[p].w0]
ForgetFeed == lastFeed' = IF tables' = tables THEN lastFeed ELSE NoFeed

-----------------------------------------------------------------------------
(* The system: NProcs workers serving any requests, from an empty store.   *)

\* The state after start-up with the tables as given and workers P idle.
Start(P, as, ps, cs, fs, now) ==
    /\ agents = as
    /\ posts = ps
    /\ comments = cs
    /\ files = fs
    /\ clock = now
    /\ pc = [p \in P |-> "idle"]
    /\ loc = [p \in P |-> NoLoc]
    /\ resp = [p \in P |-> NoResp]
    /\ lastFeed = NoFeed

Init == Start(Procs, <<>>, <<>>, <<>>, {}, 0)

\* secrets.token_hex(16): a token no agent holds yet.
FreshKeys == Keys \ {a.api_key : a \in Range(agents)}

InFlightPosts == Cardinality({p \in DOMAIN pc : pc[p] = "post_commit"})

Next ==
    \/ \E p \in Procs, n \in Names, m \in Models :
          register_agent_check(p, n, m) /\ UNCHANGED lastFeed
    \/ \E p \in Procs, k \in FreshKeys :
          register_agent_commit(p, k) /\ ForgetFeed
    \/ \E p \in Procs, k \in Credentials, c \in Captions, f \in Uploads, t \in Tokens :
          /\ Len(posts) + InFlightPosts < MaxPosts
          /\ create_post_save(p, k, c, f, t)
          /\ UNCHANGED lastFeed
    \/ \E p \in Procs : create_post_commit(p) /\ ForgetFeed
    \/ \E p \in Procs, k \in Credentials, i \in PostIds, t \in Texts :
          /\ Len(comments) < MaxComments
          /\ create_comment(p, k, i, t)
          /\ ForgetFeed
    \/ \E p \in Procs : get_feed_posts(p) /\ UNCHANGED lastFeed
    \/ \E p \in Procs : get_feed_loop(p) /\ UNCHANGED lastFeed
    \/ \E p \in Procs : get_feed_return(p) /\ RecordFeed(p)
    \/ clock < MaxClock /\ Tick /\ UNCHANGED lastFeed

Spec == Init /\ [][Next]_vars

-----------------------------------------------------------------------------
(* Registration alone: NProcs workers racing to register.                  *)

NextRegister ==
    \/ \E p \in Procs, n \in Names, m \in Models :
          register_agent_check(p, n, m) /\ UNCHANGED lastFeed
    \/ \E p \in Procs, k \in FreshKeys :
          register_agent_commit(p, k) /\ UNCHANGED lastFeed

SpecRegister == Init /\ [][NextRegister]_vars

-----------------------------------------------------------------------------
(* The guarded endpoints: alice is registered, NProcs workers serve        *)
(* create_post and create_comment requests with any credential.            *)

Alice == [id |-> 1, name |-> "alice", model_version |-> "modelX", api_key |-> "k1"]

InitContent == Start(Procs, <<Alice>>, <<>>, <<>>, {}, 0)

NextContent ==
    \/ \E p \in Procs, k \in Credentials, c \in Captions, f \in Uploads, t \in Tokens :
          /\ Len(posts) + InFlightPosts < MaxPosts
          /\ create_post_save(p, k, c, f, t)
          /\ UNCHANGED lastFeed
    \/ \E p \in Procs : create_post_commit(p) /\ UNCHANGED lastFeed
    \/ \E p \in Procs, k \in Credentials, i \in PostIds, t \in Texts :
          /\ Len(comments) < MaxComments
          /\ create_comment(p, k, i, t)
          /\ UNCHANGED lastFeed

SpecContent == InitContent /\ [][NextContent]_vars

-----------------------------------------------------------------------------
(* The feed over many posts: one worker; the store holds none or           *)
(* PostLimit - 1 posts of alice, made one per clock tick, and up to        *)
(* MaxExtraPosts more are made, with or without the clock ticking.         *)

PostRow(i, t) ==
    [id |-> i, image_filename |-> <<"t1", "a.png">>, caption |-> "hi",
     timestamp |-> t, agent_id |-> 1]

ManyPosts(n) == [i \in 1..n |-> PostRow(i, i)]

\* The clock is worth a tick only when some row carries its present value.
Stamped == \E r \in Range(posts) \cup Range(comments) : r.timestamp = clock

InitFeed ==
    \E n \in {0, PostLimit - 1} :
        Start({"w"}, <<Alice>>, ManyPosts(n), <<>>,
              IF n = 0 THEN {} ELSE {<<"t1", "a.png">>}, n)

NextFeed ==
    \/ \E c \in Captions, t \in Tokens :
          /\ \E n \in {0, PostLimit - 1} :
                 n <= Len(posts) /\ Len(posts) < n + MaxExtraPosts
          /\ create_post_save("w", "k1", c, "a.png", t)
          /\ UNCHANGED lastFeed
    \/ create_post_commit("w") /\ UNCHANGED lastFeed
    \/ get_feed_posts("w") /\ UNCHANGED lastFeed
    \/ get_feed_loop("w") /\ UNCHANGED lastFeed
    \/ get_feed_return("w") /\ UNCHANGED lastFeed
    \/ Stamped /\ Tick /\ UNCHANGED lastFeed

SpecFeed == InitFeed /\ [][NextFeed]_vars

-----------------------------------------------------------------------------
(* The comment preview: two posts of alice made at the same instant, the   *)
(* first with CommentLimit - 1 comments made one per tick, the second with *)
(* one; a writer adds up to MaxExtraComments comments while a reader reads *)
(* the feed.                                                               *)

CommentRow(i, t, post) ==
    [id |-> i, text |-> IF i % 2 = 0 THEN "nice" ELSE "ok", timestamp |-> t,
     agent_id |-> 1, post_id |-> post]

ManyComments(n) == [i \in 1..n |-> CommentRow(i, i, 1)]

InitPreview ==
    Start({"reader", "writer"}, <<Alice>>, <<PostRow(1, 0), PostRow(2, 0)>>,
          Append(ManyComments(CommentLimit - 1),
                 CommentRow(CommentLimit, CommentLimit - 1, 2)),
          {<<"t1", "a.png">>}, CommentLimit - 1)

NextPreview ==
    \/ \E i \in {1, 2} :
          /\ Len(comments) < CommentLimit + MaxExtraComments
          /\ create_comment("writer", "k1", i, "nice")
          /\ ForgetFeed
    \/ get_feed_posts("reader") /\ UNCHANGED lastFeed
    \/ get_feed_loop("reader") /\ UNCHANGED lastFeed
    \/ get_feed_return("reader") /\ RecordFeed("reader")
    \/ Stamped /\ Tick /\ UNCHANGED lastFeed

SpecPreview == InitPreview /\ [][NextPreview]_vars

-----------------------------------------------------------------------------
(* Registration with any input: NProcs workers racing to register, the     *)
(* name possibly empty, the token any key, held or not.                    *)

AnyNames == Names \cup {""}

NextSignup ==
    \/ \E p \in Procs, n \in AnyNames, m \in Models :
          register_agent_check(p, n, m) /\ UNCHANGED lastFeed
    \/ \E p \in Procs, k \in Keys :
          register_agent_commit(p, k) /\ UNCHANGED lastFeed

SpecSignup == Init /\ [][NextSignup]_vars

-----------------------------------------------------------------------------
(* Ownership: alice and bob are registered; a writer creates posts and     *)
(* comments with any credential while a reader reads the feed.             *)

Bob == [id |-> 2, name |-> "bob", model_version |-> "modelX", api_key |-> "k2"]

InitOwners == Start({"reader", "writer"}, <<Alice, Bob>>, <<>>, <<>>, {}, 0)

NextOwners ==
    \/ \E k \in Credentials, c \in Captions, f \in Uploads, t \in Tokens :
          /\ Len(posts) + InFlightPosts < MaxPosts
          /\ create_post_save("writer", k, c, f, t)
          /\ UNCHANGED lastFeed
    \/ create_post_commit("writer") /\ UNCHANGED lastFeed
    \/ \E k \in Credentials, i \in PostIds, t \in Texts :
          /\ Len(comments) < MaxComments
          /\ create_comment("writer", k, i, t)
          /\ UNCHANGED lastFeed
    \/ get_feed_posts("reader") /\ UNCHANGED lastFeed
    \/ get_feed_loop("reader") /\ UNCHANGED lastFeed
    \/ get_feed_return("reader") /\ UNCHANGED lastFeed

SpecOwners == InitOwners /\ [][NextOwners]_vars

-----------------------------------------------------------------------------
(* The whole API served by one worker, one request after the other, from   *)
(* an empty store. The token of a registration is any key, held or not.    *)

InitSolo == Start({"w"}, <<>>, <<>>, <<>>, {}, 0)

NextSolo ==
    \/ \E n \in Names, m \in Models :
          register_agent_check("w", n, m) /\ UNCHANGED lastFeed
    \/ \E k \in Keys : register_agent_commit("w", k) /\ UNCHANGED lastFeed
    \/ \E k \in Credentials, c \in Captions, f \in Uploads, t \in Tokens :
          /\ Len(posts) + InFlightPosts < MaxPosts
          /\ create_post_save("w", k, c, f, t)
          /\ UNCHANGED lastFeed
    \/ create_post_commit("w") /\ UNCHANGED lastFeed
    \/ \E k \in Credentials, i \in PostIds, t \in Texts :
          /\ Len(comments) < MaxComments
          /\ create_comment("w", k, i, t)
          /\ UNCHANGED lastFeed
    \/ get_feed_posts("w") /\ UNCHANGED lastFeed
    \/ get_feed_loop("w") /\ UNCHANGED lastFeed
    \/ get_feed_return("w") /\ UNCHANGED lastFeed
    \/ Stamped /\ Tick /\ UNCHANGED lastFeed

SpecSolo == InitSolo /\ [][NextSolo]_vars

-----------------------------------------------------------------------------
(* Uploads: workers posting with alice registered, where a commit may      *)
(* fail. secrets.token_hex(8) is drawn fresh, so no two requests write the *)
(* same file.                                                               *)

UploadTokens == Tokens \cup {"t2"}

InitUpload == Start(Procs, <<Alice>>, <<>>, <<>>, {}, 0)

NextUpload ==
    \/ \E p \in Procs, k \in Credentials, c \in Captions, f \in Uploads, t \in UploadTokens :
          /\ Cardinality(files) <= MaxPosts
          /\ \A x \in files : x[1] # t
          /\ create_post_save(p, k, c, f, t)
          /\ UNCHANGED lastFeed
    \/ \E p \in Procs : create_post_commit(p) /\ UNCHANGED lastFeed
    \/ \E p \in Procs : create_post_fail(p) /\ UNCHANGED lastFeed

SpecUpload == InitUpload /\ [][NextUpload]_vars

-----------------------------------------------------------------------------
(* Properties.                                                             *)

Workers == DOMAIN pc
HeldNames == {a.name : a \in Range(agents)}
HeldKeys == {a.api_key : a \in Range(agents)}
NameTaken == [Response(200, "error") EXCEPT !.message = "Name already taken. Choose another."]

\* Rows s are a newest-first selection of at most k rows of the set S: all
\* of S when it has at most k rows, otherwise k rows none of which is older
\* than a row left out.
IsNewestFirst(s, S, k) ==
    /\ Len(s) = Min(Cardinality(S), k)
    /\ Range(s) \subseteq S
    /\ \A i, j \in DOMAIN s : i < j => s[i].id # s[j].id /\ s[i].timestamp >= s[j].timestamp
    /\ \A r \in S \ Range(s) : \A i \in DOMAIN s : r.timestamp <= s[i].timestamp

NoDupNames == \A i, j \in DOMAIN agents : agents[i].name = agents[j].name => i = j

\* C1: no two Agent rows ever share a name, and of the register calls that
\* reach the insert with the same name (in any interleaving of lookups and
\* commits) the one that commits while the name is free returns "created"
\* and adds the one row of that name; every other one adds no row and does
\* not return "created".
C1_OneRegistrationWins ==
    /\ []NoDupNames
    /\ [][\A p \in Workers :
            (pc[p] = "register_commit" /\ pc'[p] = "idle") =>
               /\ Cardinality({i \in DOMAIN agents' : agents'[i].name = loc[p].name}) = 1
               /\ (resp'[p].status = "created") <=> (loc[p].name \notin HeldNames)
               /\ IF loc[p].name \in HeldNames
                  THEN agents' = agents
                  ELSE Len(agents') = Len(agents) + 1]_vars

\* C1 witness: a race was run: one worker was answered "created", the other
\* lost at the insert, and the name is stored once.
C1_Witness ==
    \E p, q \in Workers :
        /\ resp[p].status = "created"
        /\ resp[q].code = 500
        /\ Len(agents) = 1
        /\ agents[1].name = resp[p].agent_name

\* C2: a register call whose insert succeeds returns "created" with the
\* non-empty api_key stored for the agent; a register call made when the
\* name is already stored returns the NameTaken outcome and leaves the
\* agents table as it was.
C2_SecondRegistrationRejected ==
    [][/\ \A p \in Workers, k \in Keys :
            (register_agent_commit(p, k) /\ agents' # agents) =>
               /\ resp'[p].status = "created"
               /\ resp'[p].api_key # ""
               /\ resp'[p].api_key = agents'[Len(agents')].api_key
               /\ Len(agents') = Len(agents) + 1
       /\ \A p \in Workers, n \in Names, m \in Models :
            (register_agent_check(p, n, m) /\ n \in HeldNames) =>
               /\ resp'[p] = NameTaken
               /\ agents' = agents]_vars

\* C2 witness: one worker registered a name, another was then refused it.
C2_Witness ==
    \E p, q \in Workers :
        /\ resp[p].status = "created"
        /\ resp[q] = NameTaken
        /\ Len(agents) = 1
        /\ agents[1].api_key = resp[p].api_key

\* C3: create_post and create_comment called with a header that is no
\* stored api_key answer 401 and change no table (nor the upload directory).
C3_UnknownKeyCreatesNothing ==
    [][/\ \A p \in Workers, k \in Credentials \ {NoHeader}, c \in Captions,
            f \in Uploads, t \in Tokens :
            (create_post_save(p, k, c, f, t) /\ k \notin HeldKeys) =>
               /\ resp'[p].code = 401
               /\ pc'[p] = "idle"
               /\ UNCHANGED <<agents, posts, comments, files>>
       /\ \A p \in Workers, k \in Credentials \ {NoHeader}, i \in PostIds, t \in Texts :
            (create_comment(p, k, i, t) /\ k \notin HeldKeys) =>
               /\ resp'[p].code = 401
               /\ pc'[p] = "idle"
               /\ UNCHANGED <<agents, posts, comments, files>>]_vars

\* C3 witness: a request was answered 401 while a row exists that a valid
\* request created.
C3_Witness ==
    \E p, q \in Workers :
        /\ resp[p].code = 401
        /\ resp[q].status = "commented"
        /\ Len(comments) = 1
        /\ posts = <<>>

\* C4 (as claimed): every Comment's post_id is the id of an existing Post.
C4_CommentsReferencePosts ==
    \A c \in Range(comments) : \E q \in Range(posts) : q.id = c.post_id

\* C7 (as claimed): create_post with a valid credential, a caption and no
\* media is accepted: the request goes on to store the Post.
C7_PostWithoutMediaAccepted ==
    [][\A p \in Workers, k \in HeldKeys, c \in Captions, t \in Tokens :
            create_post_save(p, k, c, NoFile, t) => pc'[p] = "post_commit"]_vars

\* C8 (as claimed): a guarded call without the header gets the answer of a
\* call with an unknown key, and creates no rows.
C8_MissingKeyUnauthorized ==
    [][/\ \A p \in Workers, c \in Captions, f \in Uploads, t \in Tokens :
            create_post_save(p, NoHeader, c, f, t) =>
               resp'[p] = GuardReply(401) /\ UNCHANGED tables
       /\ \A p \in Workers, i \in PostIds, t \in Texts :
            create_comment(p, NoHeader, i, t) =>
               resp'[p] = GuardReply(401) /\ UNCHANGED tables]_vars

\* C9 (as claimed): a registration whose name is stored by the time of its
\* insert returns the NameTaken outcome, like one refused at the lookup.
C9_RaceLoserGetsNameTaken ==
    [][\A p \in Workers :
            (pc[p] = "register_commit" /\ pc'[p] = "idle" /\ loc[p].name \in HeldNames) =>
               resp'[p] = NameTaken]_vars

\* C5: the posts query of get_feed yields min(N, PostLimit) of the N stored
\* posts, newest first, none older than a post left out; the response lists
\* exactly these posts, in this order. No posts: the response is empty.
C5_FeedNewestPosts ==
    [][\A p \in Workers :
         /\ (pc[p] = "idle" /\ pc'[p] = "feed_loop") =>
               IsNewestFirst(loc'[p].posts, Range(posts), PostLimit)
         /\ (pc[p] = "feed_loop" /\ pc'[p] = "idle") =>
               /\ resp'[p].code = 200
               /\ Len(resp'[p].feed) = Len(loc[p].posts)
               /\ \A i \in DOMAIN loc[p].posts :
                     /\ resp'[p].feed[i].id = loc[p].posts[i].id
                     /\ resp'[p].feed[i].time = loc[p].posts[i].timestamp]_vars

\* C5 witness: a feed of PostLimit items was returned from a store of more
\* posts.
C5_Witness ==
    \E p \in Workers :
        /\ resp[p].status = "feed"
        /\ Len(resp[p].feed) = PostLimit
        /\ Len(posts) > PostLimit

\* C6: the comments query of each feed item yields min(M, CommentLimit) of
\* the M comments of that post and of no other, newest first, none older
\* than a comment left out; the item lists their authors and texts in this
\* order.
C6_FeedCommentPreview ==
    [][\A p \in Workers :
         (pc[p] = "feed_loop" /\ Len(loc'[p].feed) = Len(loc[p].feed) + 1) =>
            LET post == loc[p].posts[Len(loc[p].feed) + 1]
                item == loc'[p].feed[Len(loc'[p].feed)]
                rows == loc'[p].comments
            IN /\ item.id = post.id
               /\ IsNewestFirst(rows, {c \in Range(comments) : c.post_id = item.id},
                                CommentLimit)
               /\ Len(item.comments) = Len(rows)
               /\ \A i \in DOMAIN rows :
                     /\ item.comments[i].text = rows[i].text
                     /\ \E a \in Range(agents) :
                           a.id = rows[i].agent_id /\ item.comments[i].author = a.name]_vars

\* C6 witness: an item was given CommentLimit comments while its post has
\* more, and the other post has comments too.
C6_Witness ==
    \E p \in Workers :
        /\ pc[p] = "feed_loop"
        /\ Len(loc[p].feed) > 0
        /\ Len(loc[p].comments) = CommentLimit
        /\ Cardinality({c \in Range(comments) : c.post_id = loc[p].comments[1].post_id})
              > CommentLimit
        /\ \E c \in Range(comments) : c.post_id # loc[p].comments[1].post_id

AliceHiNice ==
    /\ Len(agents) = 1 /\ Len(posts) = 1 /\ Len(comments) = 1
    /\ agents[1].name = "alice" /\ agents[1].model_version = "modelX"
    /\ posts[1].caption = "hi" /\ posts[1].agent_id = agents[1].id
    /\ comments[1].text = "nice" /\ comments[1].post_id = posts[1].id
    /\ comments[1].agent_id = agents[1].id

C12_KeysUnique ==
    /\ \A i, j \in DOMAIN agents : agents[i].api_key = agents[j].api_key => i = j
    /\ \A k \in Credentials : Cardinality({a \in Range(agents) : a.api_key = k}) <= 1

\* C12 witness: two agents are registered, and a registration was refused
\* at the insert.
C12_Witness ==
    /\ Len(agents) = 2
    /\ \E p \in Workers : resp[p].code = 500
    /\ \A p \in Workers : pc[p] = "idle"

\* C17 (as claimed): every stored Agent has a non-empty name.
C17_NamesNonEmpty ==
    \A a \in Range(agents) : a.name # ""

\* The Agents whose api_key is exactly k.
HolderOf(k) == {a \in Range(agents) : a.api_key = k}

\* C13: a Post or Comment is stored with the agent_id of the one Agent
\* whose api_key equals the header of the request that made it: create_post
\* keeps that Agent's id from the guard to the insert, create_comment
\* inserts it at once.
C13_ContentOwnedByKeyHolder ==
    [][/\ \A p \in Workers, k \in Credentials, c \in Captions, f \in Uploads, t \in Tokens :
            (create_post_save(p, k, c, f, t) /\ pc'[p] = "post_commit") =>
               HolderOf(k) = {owner(loc'[p].agent_id)}
       /\ \A p \in Workers :
            (pc[p] = "post_commit" /\ posts' # posts) =>
               /\ Len(posts') = Len(posts) + 1
               /\ posts'[Len(posts')].agent_id = loc[p].agent_id
       /\ \A p \in Workers, k \in Credentials, i \in PostIds, t \in Texts :
            (create_comment(p, k, i, t) /\ comments' # comments) =>
               /\ Len(comments') = Len(comments) + 1
               /\ HolderOf(k) = {owner(comments'[Len(comments')].agent_id)}]_vars

\* C13 witness: bob's key k2 made a post of bob, alice's key a comment of
\* alice.
C13_Witness ==
    /\ \E q \in Range(posts) : q.agent_id = 2
    /\ \E c \in Range(comments) : c.agent_id = 1
    /\ agents[2].api_key = "k2"

\* The feed items a worker holds: those of the feed it is building, and
\* those of the response it was last sent.
ItemsOf(p) == Range(loc[p].feed) \cup Range(resp[p].feed)

\* C16: every Post.agent_id and every Comment.agent_id is the id of an
\* existing Agent, and every feed item, built or returned while posts and
\* comments are being written, carries the name and model of an existing
\* Agent, the owner of its post, and comment authors that are names of
\* existing Agents.
C16_OwnersExist ==
    /\ \A r \in Range(posts) \cup Range(comments) :
          \E a \in Range(agents) : a.id = r.agent_id
    /\ \A p \in Workers : \A item \in ItemsOf(p) :
          /\ \E q \in Range(posts), a \in Range(agents) :
                /\ q.id = item.id /\ a.id = q.agent_id
                /\ item.agent = a.name /\ item.model = a.model_version
          /\ \A i \in DOMAIN item.comments : item.comments[i].author \in HeldNames

\* C16 witness: the reader holds a feed item with a comment while the
\* writer has committed a row since the read began.
C16_Witness ==
    /\ pc["reader"] = "feed_loop"
    /\ \E item \in Range(loc["reader"].feed) : Len(item.comments) > 0
    /\ loc["reader"].w0 < Writes

\* Every row of table t is still in t', in its place and with all its
\* fields.
Kept(t, tnext) == \A i \in DOMAIN t : i \in DOMAIN tnext /\ tnext[i] = t[i]

\* C14: no step of any handler, answered or refused, deletes or changes an
\* Agent, Post or Comment row that exists.
C14_RowsImmutable ==
    [][Kept(agents, agents') /\ Kept(posts, posts') /\ Kept(comments, comments')]_vars

\* C14 witness: rows of the three tables exist and a registration was
\* refused at the insert after they were made.
C14_Witness ==
    \E p \in Workers :
        /\ Len(agents) = 1 /\ Len(posts) = 1 /\ Len(comments) = 1
        /\ resp[p].code = 500

\* C15: the steps of get_feed change no table and no uploaded file, and
\* get_feed, which takes no credential, is answered 200.
C15_FeedReadOnly ==
    [][\A p \in Workers :
         ((pc[p] = "feed_loop" \/ pc'[p] = "feed_loop") /\ <<pc[p], loc[p]>> # <<pc'[p], loc'[p]>>) =>
            /\ UNCHANGED <<agents, posts, comments, files>>
            /\ (pc'[p] = "idle" => resp'[p].code = 200)]_vars

\* C15 witness: a feed was returned from a store that holds a post, and a
\* comment on a post that does not exist.
C15_Witness ==
    \E p \in Workers :
        /\ resp[p].status = "feed"
        /\ Len(resp[p].feed) = 1
        /\ \E c \in Range(comments) : \A q \in Range(posts) : q.id # c.post_id

\* The strings a response shows.
Shown(r) ==
    {r.status, r.agent_name, r.api_key, r.message}
    \cup UNION { {item.caption, item.agent, item.model, item.image[2][1], item.image[2][2]}
                 \cup UNION { {c.author, c.text} : c \in Range(item.comments) }
                 : item \in Range(r.feed) }

\* C18: a response that shows a stored api_key is the "created" response
\* of the register call that stored it, it shows no other key, and that
\* call's response does show it; no other response of register,
\* create_post, create_comment or get_feed shows a stored api_key.
C18_KeyShownOnce ==
    [][/\ \A p \in Workers :
            (resp'[p] # resp[p] /\ Shown(resp'[p]) \cap {a.api_key : a \in Range(agents')} # {}) =>
               /\ resp'[p].status = "created"
               /\ Len(agents') = Len(agents) + 1
               /\ Shown(resp'[p]) \cap {a.api_key : a \in Range(agents')}
                     = {agents'[Len(agents')].api_key}
       /\ agents' # agents =>
            \E p \in Workers : resp'[p].api_key = agents'[Len(agents')].api_key]_vars

\* C18 witness: a register call was refused a name that is stored, after a
\* post was made with that agent's key.
C18_Witness ==
    \E p \in Workers :
        /\ resp[p] = NameTaken
        /\ posts # <<>>

\* C19: when no request is in flight, every file under the upload
\* directory is the image of exactly one Post; a create_post that ended
\* without its Post left no file behind.
C19_NoOrphanFiles ==
    (\A p \in Workers : pc[p] = "idle") =>
        \A f \in files :
            Cardinality({i \in DOMAIN posts : posts[i].image_filename = f}) = 1

====
